---- MODULE Spec2Model ----
(***************************************************************************)
(* The fallback-chain retrieval engine of read-web-page: the content       *)
(* validator, the result cache, the four retrieval strategies, the         *)
(* orchestrator readWebPage, the objective filter, the shared browser and  *)
(* the MCP server's CallTool handler (src/src/index.ts),                   *)
(* with the strings of the program kept as sequences of one-character      *)
(* strings so that length, case folding, substring search, split and join  *)
(* are computed and not assumed.                                           *)
(***************************************************************************)
EXTENDS Integers, Sequences, FiniteSets, TLC

VARIABLES
    cache,        \* Map<string, {content, timestamp}> (index.ts:114)
    now,          \* the value Date.now() returns
    ticks,        \* how often the clock has advanced
    started,      \* how many readWebPage calls have been made
    pc,           \* per call slot: where the async function readWebPage stands
    url,          \* per call slot: argument url
    objective,    \* per call slot: argument objective (optional string)
    forceRefetch, \* per call slot: argument forceRefetch
    invoked,      \* per call slot: the strategies called so far, in call order
    returned,     \* per call slot: what each called strategy returned
    sawEntry,     \* per call slot: the cache entry and clock the cache check read
    ret,          \* per call slot: the value or error the call settled with
    wrote,        \* per call slot: the entry the call has set in the cache
    writer,       \* per key: the slot of the call that set the entry last (0: none)
    requests,     \* per call slot: the network requests the call has issued
    response,     \* per call slot: what the CallTool handler answered
    browserInstance, \* let browserInstance: Browser | null (0 is null)
    browsers,     \* every browser launched: is it connected (by handle)
    pages,        \* every browser launched: how many of its pages are open
    rendered,     \* per call slot: what tryPlaywright's inner try ended with
    browser,      \* per call slot: tryPlaywright's const browser (0: none)
    vText,        \* input of isValidContent
    vOut,         \* its verdict
    fContent,     \* input content of filterByObjective
    fObjective,   \* input objective of filterByObjective
    fOut          \* its result

vars == <<cache, now, ticks, started, pc, url, objective, forceRefetch, invoked,
          returned, sawEntry, ret, wrote, writer, requests, response,
          browserInstance, browsers, pages, rendered, browser, vText, vOut,
          fContent, fObjective, fOut>>

browserVars == <<browserInstance, browsers, pages, rendered, browser>>

orchVars == <<cache, now, ticks, started, pc, url, objective, forceRefetch,
              invoked, returned, sawEntry, ret, wrote, writer, requests, response,
              browserVars>>

validVars == <<vText, vOut>>

filterVars == <<fContent, fObjective, fOut>>

----------------------------------------------------------------------------
(* Strings *)

UpperLetters == <<"A","B","C","D","E","F","G","H","I","J","K","L","M","N","O","P","Q","R","S","T","U","V","W","X","Y","Z">>

LowerLetters == <<"a","b","c","d","e","f","g","h","i","j","k","l","m","n","o","p","q","r","s","t","u","v","w","x","y","z">>

Digits == {"0","1","2","3","4","5","6","7","8","9"}

\* the characters the regular expression class \s matches, of those used here
WhiteSpace == {" ", "\t", "\n"}

\* String.prototype.toLowerCase on one character
toLowerChar(c) ==
    IF \E i \in 1..26 : UpperLetters[i] = c
    THEN LowerLetters[CHOOSE i \in 1..26 : UpperLetters[i] = c]
    ELSE c

\* String.prototype.toLowerCase
toLowerCase(s) == [i \in 1..Len(s) |-> toLowerChar(s[i])]

\* s.startsWith(sub, at - 1): sub occurs in s at position at (1-based)
occursAt(s, sub, at) ==
    /\ at + Len(sub) - 1 <= Len(s)
    /\ \A j \in 1..Len(sub) : s[at + j - 1] = sub[j]

\* String.prototype.includes
includes(s, sub) == \E at \in 1..(Len(s) + 1) : occursAt(s, sub, at)

\* the position of the first character of s that is in set, 0 when none
firstIn(s, set) ==
    IF \E i \in 1..Len(s) : s[i] \in set
    THEN CHOOSE i \in 1..Len(s) : s[i] \in set /\ \A j \in 1..(i - 1) : s[j] \notin set
    ELSE 0

\* String.prototype.split("\n")
RECURSIVE splitLines(_)
splitLines(s) ==
    LET i == firstIn(s, {"\n"})
    IN  IF i = 0 THEN <<s>>
        ELSE <<SubSeq(s, 1, i - 1)>> \o splitLines(SubSeq(s, i + 1, Len(s)))

\* the position of the first character of s at or after from that is not
\* white space, Len(s) + 1 when none
RECURSIVE skipSpace(_, _)
skipSpace(s, from) ==
    IF from <= Len(s) /\ s[from] \in WhiteSpace THEN skipSpace(s, from + 1) ELSE from

\* the position of the first character of s at or after from that is not a
\* newline, Len(s) + 1 when none
RECURSIVE skipNewlines(_, _)
skipNewlines(s, from) ==
    IF from <= Len(s) /\ s[from] = "\n" THEN skipNewlines(s, from + 1) ELSE from

\* String.prototype.split(/\s+/): a run of white space is one separator; a
\* separator at either end leaves an empty string there
RECURSIVE splitSpace(_)
splitSpace(s) ==
    LET i == firstIn(s, WhiteSpace)
    IN  IF i = 0 THEN <<s>>
        ELSE <<SubSeq(s, 1, i - 1)>>
                 \o splitSpace(SubSeq(s, skipSpace(s, i), Len(s)))

\* Array.prototype.join("\n")
RECURSIVE joinLines(_)
joinLines(lines) ==
    IF Len(lines) = 0 THEN <<>>
    ELSE IF Len(lines) = 1 THEN lines[1]
    ELSE lines[1] \o <<"\n">> \o joinLines(Tail(lines))

\* String.prototype.trim
RECURSIVE trimEnd(_)
trimEnd(s) ==
    IF Len(s) > 0 /\ s[Len(s)] \in WhiteSpace THEN trimEnd(SubSeq(s, 1, Len(s) - 1)) ELSE s

trim(s) == trimEnd(SubSeq(s, skipSpace(s, 1), Len(s)))

\* n copies of the character c
fill(c, n) == [i \in 1..n |-> c]

----------------------------------------------------------------------------
(* Content quality check *)

MIN_CONTENT_LENGTH == 200

JUNK_INDICATORS == <<
    <<"s","o","m","e","t","h","i","n","g"," ","w","e","n","t"," ","w","r","o","n","g">>,
    <<"t","r","y"," ","a","g","a","i","n">>,
    <<"p","l","e","a","s","e"," ","d","i","s","a","b","l","e">>,
    <<"e","n","a","b","l","e"," ","j","a","v","a","s","c","r","i","p","t">>,
    <<"b","r","o","w","s","e","r"," ","n","o","t"," ","s","u","p","p","o","r","t","e","d">>,
    <<"a","c","c","e","s","s"," ","d","e","n","i","e","d">>,
    <<"p","l","e","a","s","e"," ","v","e","r","i","f","y">>,
    <<"c","h","e","c","k","i","n","g"," ","y","o","u","r"," ","b","r","o","w","s","e","r">>,
    <<"j","u","s","t"," ","a"," ","m","o","m","e","n","t">>
>>

\* isJunkContent without the toLowerCase
isJunkContent_caseSensitive(text) ==
    \E k \in 1..Len(JUNK_INDICATORS) : includes(text, JUNK_INDICATORS[k])

isJunkContent(text) ==
    LET lower == toLowerCase(text)
    IN  \E k \in 1..Len(JUNK_INDICATORS) : includes(lower, JUNK_INDICATORS[k])

isValidContent(text) == Len(text) >= MIN_CONTENT_LENGTH /\ ~isJunkContent(text)

----------------------------------------------------------------------------
(* Optional values: string | null, and an optional string argument *)

Null == [present |-> FALSE, text |-> <<>>]

Some(s) == [present |-> TRUE, text |-> s]

\* JavaScript truthiness of a string | null | undefined value
truthy(v) == v.present /\ Len(v.text) > 0

----------------------------------------------------------------------------
(* Objective filtering *)

\* filterByObjective without the fall-back to the content when no line is kept
filterByObjective_noFallback(content, obj) ==
    LET lines == splitLines(content)
        keywords == splitSpace(toLowerCase(obj))
        keep(line) ==
            LET lower == toLowerCase(line)
            IN  \E k \in 1..Len(keywords) : includes(lower, keywords[k])
    IN  joinLines(SelectSeq(lines, keep))

filterByObjective(content, obj) ==
    LET lines == splitLines(content)
        keywords == splitSpace(toLowerCase(obj))
        keep(line) ==
            LET lower == toLowerCase(line)
            IN  \E k \in 1..Len(keywords) : includes(lower, keywords[k])
        relevant == SelectSeq(lines, keep)
    IN  IF Len(relevant) > 0 THEN joinLines(relevant) ELSE content

\* objective ? filterByObjective(content, objective) : content
output(content, obj) ==
    IF truthy(obj) THEN filterByObjective(content, obj.text) ELSE content

----------------------------------------------------------------------------
(* HTML to Markdown *)

\* .replace(/\n{3,}/g, "\n\n")
RECURSIVE collapseNewlines(_)
collapseNewlines(s) ==
    IF \E i \in 1..(Len(s) - 2) : s[i] = "\n" /\ s[i + 1] = "\n" /\ s[i + 2] = "\n"
    THEN LET i == CHOOSE i \in 1..(Len(s) - 2) :
                      /\ s[i] = "\n" /\ s[i + 1] = "\n" /\ s[i + 2] = "\n"
                      /\ \A j \in 1..(i - 1) :
                             ~(s[j] = "\n" /\ s[j + 1] = "\n" /\ s[j + 2] = "\n")
             rest == skipNewlines(s, i)
         IN  SubSeq(s, 1, i - 1) \o <<"\n", "\n">>
                 \o collapseNewlines(SubSeq(s, rest, Len(s)))
    ELSE s

\* htmlToMarkdown from the Markdown turndown made of the page: the white
\* space clean-up.  What cheerio selects and turndown converts is the
\* argument, chosen by the caller among TurndownOutputs.
htmlToMarkdown(turned) ==
    LET nonBlank(line) == Len(trim(line)) > 0
    IN  trim(collapseNewlines(joinLines(SelectSeq(splitLines(turned), nonBlank))))

----------------------------------------------------------------------------
(* URL detection *)

\* isTwitterUrl with the host left out of the pattern
isTwitterUrl_anyHost(u) ==
    LET lower == toLowerCase(u)
    IN  \E prefix \in { <<"h","t","t","p",":","/","/">>, <<"h","t","t","p","s",":","/","/">> } :
            occursAt(lower, prefix, 1)

\* /^https?:\/\/(x\.com|twitter\.com)\//i
isTwitterUrl(u) ==
    LET lower == toLowerCase(u)
    IN  \E prefix \in { <<"h","t","t","p",":","/","/","x",".","c","o","m","/">>, <<"h","t","t","p","s",":","/","/","x",".","c","o","m","/">>,
                        <<"h","t","t","p",":","/","/","t","w","i","t","t","e","r",".","c","o","m","/">>, <<"h","t","t","p","s",":","/","/","t","w","i","t","t","e","r",".","c","o","m","/">> } :
            occursAt(lower, prefix, 1)

\* the end (inclusive) of the run of characters of set that starts at from;
\* from - 1 when the run is empty
RECURSIVE runEnd(_, _, _)
runEnd(s, from, set) ==
    IF from <= Len(s) /\ s[from] \in set THEN runEnd(s, from + 1, set) ELSE from - 1

\* the end (inclusive) of the run of characters other than "/" starting at from
RECURSIVE segmentEnd(_, _)
segmentEnd(s, from) ==
    IF from <= Len(s) /\ s[from] # "/" THEN segmentEnd(s, from + 1) ELSE from - 1

\* the match of /(?:x\.com|twitter\.com)\/([^/]+)\/status\/(\d+)/i that
\* starts with host at position at: its two groups, or no match
tweetMatchAt(u, host, at) ==
    LET lower == toLowerCase(u)
        userFrom == at + Len(host) + 1
        userTo == segmentEnd(u, userFrom)
        idFrom == userTo + 1 + Len(<<"/","s","t","a","t","u","s","/">>)
        idTo == runEnd(u, idFrom, Digits)
    IN  IF /\ occursAt(lower, host \o <<"/">>, at)
           /\ userTo >= userFrom
           /\ occursAt(lower, <<"/","s","t","a","t","u","s","/">>, userTo + 1)
           /\ idTo >= idFrom
        THEN Some(SubSeq(u, userFrom, userTo) \o <<"/","s","t","a","t","u","s","/">> \o SubSeq(u, idFrom, idTo))
        ELSE Null

\* url.match(...) takes the leftmost match; `${match[1]}/status/${match[2]}`
extractTweetPath(u) ==
    LET hosts == { <<"x",".","c","o","m">>, <<"t","w","i","t","t","e","r",".","c","o","m">> }
        hit(at) == \E h \in hosts : tweetMatchAt(u, h, at).present
    IN  IF \E at \in 1..Len(u) : hit(at)
        THEN LET at == CHOOSE at \in 1..Len(u) : hit(at) /\ \A b \in 1..(at - 1) : ~hit(b)
                 h == CHOOSE h \in hosts : tweetMatchAt(u, h, at).present
             IN  tweetMatchAt(u, h, at)
        ELSE Null

----------------------------------------------------------------------------
(* Provider: FXTwitter *)

\* String(n) for a natural number
RECURSIVE natToString(_)
natToString(n) ==
    LET digit == <<"0","1","2","3","4","5","6","7","8","9">>[(n % 10) + 1]
    IN  IF n < 10 THEN <<digit>> ELSE natToString(n \div 10) \o <<digit>>

\* Number.prototype.toLocaleString() in the en-US locale: groups of three
RECURSIVE toLocaleString(_)
toLocaleString(n) ==
    IF n < 1000 THEN natToString(n)
    ELSE LET low == natToString(n % 1000)
         IN  toLocaleString(n \div 1000) \o <<",">> \o fill("0", 3 - Len(low)) \o low

\* a || b for optional strings, b a string
orElse(v, default) == IF truthy(v) THEN v.text ELSE default

\* stats.join(" · "), the separator written with "*" for U+00B7
RECURSIVE joinStats(_)
joinStats(stats) ==
    IF Len(stats) = 0 THEN <<>>
    ELSE IF Len(stats) = 1 THEN stats[1]
    ELSE stats[1] \o <<" ","*"," ">> \o joinStats(Tail(stats))

formatTweet(tweet) ==
    LET head == << <<"#"," ">> \o orElse(tweet.name, <<"U","n","k","n","o","w","n">>) \o <<" ","(","@">>
                      \o orElse(tweet.screen_name, <<"u","n","k","n","o","w","n">>) \o <<")">>,
                   <<>>, orElse(tweet.text, <<>>), <<>> >>
        photos == IF Len(tweet.photos) > 0
                  THEN [i \in 1..Len(tweet.photos) |->
                            <<"!","[","I","m","a","g","e","]","(">> \o tweet.photos[i] \o <<")">>] \o << <<>> >>
                  ELSE <<>>
        videos == IF Len(tweet.videos) > 0
                  THEN [i \in 1..Len(tweet.videos) |->
                            <<"[","V","i","d","e","o","]","(">> \o tweet.videos[i] \o <<")">>] \o << <<>> >>
                  ELSE <<>>
        stats == (IF tweet.likes # 0 THEN <<natToString(tweet.likes) \o <<" ","l","i","k","e","s">>>> ELSE <<>>)
              \o (IF tweet.retweets # 0 THEN <<natToString(tweet.retweets) \o <<" ","r","e","t","w","e","e","t","s">>>> ELSE <<>>)
              \o (IF tweet.replies # 0 THEN <<natToString(tweet.replies) \o <<" ","r","e","p","l","i","e","s">>>> ELSE <<>>)
              \o (IF tweet.views # 0 THEN <<toLocaleString(tweet.views) \o <<" ","v","i","e","w","s">>>> ELSE <<>>)
        statLines == IF Len(stats) > 0 THEN << <<"-","-","-">>, joinStats(stats) >> ELSE <<>>
        posted == IF truthy(tweet.created_at)
                  THEN << <<"P","o","s","t","e","d",":"," ">> \o tweet.created_at.text >> ELSE <<>>
        source == << <<"S","o","u","r","c","e",":"," ">> \o orElse(tweet.url, <<>>) >>
    IN  trim(joinLines(head \o photos \o videos \o statLines \o posted \o source))

TWEET_TEXT_MIN == 10

\* tryFxTwitter on the answer resp of the API; no request is made, and resp
\* is not read, when the URL holds no tweet path
tryFxTwitter(u, resp) ==
    IF ~extractTweetPath(u).present THEN Null
    ELSE IF resp.kind = "error" THEN Null
    ELSE IF resp.kind = "status" THEN Null
    ELSE IF ~resp.hasTweet THEN Null
    ELSE LET formatted == formatTweet(resp.tweet)
         IN  IF ~truthy(resp.tweet.text) \/ Len(trim(resp.tweet.text.text)) < TWEET_TEXT_MIN
             THEN Null
             ELSE Some(formatted)

----------------------------------------------------------------------------
(* Providers: fetch, Jina, Playwright *)

\* tryFetch on the answer resp: a thrown error (network, timeout, converter),
\* a non-2xx status, or a body whose turndown output is resp.body
tryFetch(resp) ==
    IF resp.kind = "error" THEN Null
    ELSE IF resp.kind = "status" THEN Null
    ELSE LET markdown == htmlToMarkdown(resp.body)
         IN  IF ~isValidContent(markdown) THEN Null ELSE Some(markdown)

\* tryJina on the answer resp of r.jina.ai, whose body is the text itself
tryJina(resp) ==
    IF resp.kind = "error" THEN Null
    ELSE IF resp.kind = "status" THEN Null
    ELSE IF ~isValidContent(resp.body) THEN Null ELSE Some(resp.body)

\* tryPlaywright on the outcome resp of driving the browser: an error thrown
\* anywhere (launch, newPage, content, close), or the final HTML whose
\* turndown output is resp.body
tryPlaywright(resp) ==
    IF resp.kind = "error" THEN Null ELSE Some(htmlToMarkdown(resp.body))

----------------------------------------------------------------------------
(* Bounds and the inputs the model draws from *)

\* the readWebPage calls made in one behaviour
MaxCalls == 2

\* the times the clock advances in one behaviour
MaxTicks == 2

\* the calls made in one behaviour of the callers of one page
MaxReads == 3

\* the call slots
Procs == {1, 2}

\* the slot of the specifications in which one call settles before the next
\* is made
Sequential == {1}

CACHE_TTL == 24 * 60 * 60 * 1000

\* the clock advances by a millisecond or by a millisecond less than the TTL,
\* so that ages below, at and above the TTL all occur
TickSteps == {1, CACHE_TTL - 1}

U_POST == <<"h","t","t","p","s",":","/","/","x",".","c","o","m","/","u","/","s","t","a","t","u","s","/","1">>

U_HOME == <<"h","t","t","p","s",":","/","/","x",".","c","o","m","/","h","o","m","e">>

U_PAGE == <<"h","t","t","p","s",":","/","/","e",".","i","o","/","a">>

URLS == {U_POST, U_HOME, U_PAGE}

\* a Twitter URL that is no tweet's, with a tweet's address in its query
U_SHARE == <<"h","t","t","p","s",":","/","/","x",".","c","o","m","/","s","h","a","r","e","?","u","=","x",".","c","o","m","/","u","/","s","t","a","t","u","s","/","1">>

\* U_PAGE with a slash after it
U_PAGE_SLASH == <<"h","t","t","p","s",":","/","/","e",".","i","o","/","a","/">>

\* every URL string of the model
AllUrls == URLS \cup {U_SHARE, U_PAGE_SLASH}

\* the value of url when the arguments of a tool call hold none
UNDEFINED == <<"undefined">>

\* the keys the cache is asked for
Keys == AllUrls \cup {UNDEFINED}

\* `${url}`: a string as it is, undefined as the word
asString(u) == IF u = UNDEFINED THEN <<"u","n","d","e","f","i","n","e","d">> ELSE u

\* turndown's output for a page with real content: 200 characters and more
ARTICLE ==
    <<"#"," ","S","t","o","r","e","\n","\n","P","r","i","c","e",":"," ","$","1","0","\n","\n","\n","\n","S","h","i","p","p","i","n","g",":"," ","f","r","e","e","\n"," "," "," ","\n","C","o","n","t","a","c","t"," ","u","s","\n">> \o fill("x", 200)

\* a bot-challenge page of the same size
CHALLENGE ==
    <<"J","u","s","t"," ","a"," ","m","o","m","e","n","t",".",".",".","\n","P","l","e","a","s","e"," ","E","N","A","B","L","E"," ","J","a","v","a","S","c","r","i","p","t"," ","t","o"," ","c","o","n","t","i","n","u","e","\n">> \o fill("x", 200)

\* a login wall: short, and junk by its wording
STUB == <<"A","c","c","e","s","s"," ","D","e","n","i","e","d","\n","\n","S","i","g","n"," ","i","n">>

\* a teaser: short, and no junk phrase in it
TEASER == <<"P","r","i","c","e",":"," ","$","1","0","\n","\n","S","u","b","s","c","r","i","b","e">>

\* an empty shell page
BLANK == <<"\n"," "," ","\n">>

TurndownOutputs == {ARTICLE, CHALLENGE, STUB, TEASER, BLANK}

\* what a request can come back with: a thrown error, a non-2xx status, a body
Responses ==
    [kind : {"error", "status"}, body : {<<>>}] \cup [kind : {"ok"}, body : TurndownOutputs]

\* what driving the browser can come back with: page.goto's failure is caught
\* and a non-2xx page is still a page, so only a thrown error or the HTML, of
\* a page with content, of a login wall or of an empty shell
BrowserOutcomes ==
    [kind : {"error"}, body : {<<>>}] \cup [kind : {"ok"}, body : {ARTICLE, STUB, BLANK}]

\* fetch(undefined) rejects: "undefined" is no URL
responsesTo(u) ==
    IF u = UNDEFINED THEN [kind : {"error"}, body : {<<>>}] ELSE Responses

\* page.goto(undefined) throws twice and the page stays the empty one
outcomesOf(u) ==
    IF u = UNDEFINED
    THEN [kind : {"error"}, body : {<<>>}] \cup [kind : {"ok"}, body : {BLANK}]
    ELSE BrowserOutcomes

TWEET_FULL ==
    [name |-> Some(<<"A","n","n">>), screen_name |-> Some(<<"a","n","n">>),
     text |-> Some(<<"L","a","u","n","c","h"," ","d","a","y","!"," ","P","r","i","c","e",":"," ","$","1","0">>),
     photos |-> << <<"h","t","t","p","s",":","/","/","p",".","i","o","/","1",".","j","p","g">> >>, videos |-> <<>>,
     likes |-> 12, retweets |-> 0, replies |-> 3, views |-> 3400,
     created_at |-> Some(<<"M","o","n"," ","J","a","n"," ","0","1">>), url |-> Some(U_POST)]

TWEET_SHORT ==
    [name |-> Some(<<"A","n","n">>), screen_name |-> Some(<<"a","n","n">>), text |-> Some(<<" "," ","h","i"," ","t","h","e","r","e"," ">>),
     photos |-> <<>>, videos |-> << <<"h","t","t","p","s",":","/","/","p",".","i","o","/","1",".","m","p","4">> >>,
     likes |-> 0, retweets |-> 0, replies |-> 0, views |-> 0,
     created_at |-> Null, url |-> Some(U_POST)]

TWEET_EMPTY ==
    [name |-> Null, screen_name |-> Null, text |-> Null,
     photos |-> <<>>, videos |-> <<>>,
     likes |-> 0, retweets |-> 0, replies |-> 0, views |-> 0,
     created_at |-> Null, url |-> Null]

\* an answer of the FXTwitter API that is never read
NO_ANSWER == [kind |-> "error", hasTweet |-> FALSE, tweet |-> TWEET_EMPTY]

\* what the FXTwitter API can come back with
FxResponses ==
    [kind : {"error", "status", "ok"}, hasTweet : {FALSE}, tweet : {TWEET_EMPTY}]
        \cup [kind : {"ok"}, hasTweet : {TRUE}, tweet : {TWEET_FULL, TWEET_SHORT, TWEET_EMPTY}]

\* the objective argument: left out, or a string
Objectives == {Null, Some(<<"p","r","i","c","e">>)}

----------------------------------------------------------------------------
(* The cache and the orchestrator readWebPage *)

NoEntry == [present |-> FALSE, content |-> <<>>, timestamp |-> 0]

Entry(content, t) == [present |-> TRUE, content |-> content, timestamp |-> t]

Pending == [status |-> "pending", text |-> <<>>]

\* no tool call has been made in the slot
NoResponse == [status |-> "none", isError |-> FALSE, text |-> <<>>]

\* the cache check with forceRefetch read the wrong way round
cacheHit_forceInverted(force, cached, t) ==
    force /\ cached.present /\ t - cached.timestamp < CACHE_TTL

\* the cache check without forceRefetch
cacheHit_ignoresForce(force, cached, t) ==
    cached.present /\ t - cached.timestamp < CACHE_TTL

\* the cache check with <= for <
cacheHit_inclusive(force, cached, t) ==
    ~force /\ cached.present /\ t - cached.timestamp <= CACHE_TTL

\* the cache check: !forceRefetch, cached && Date.now() - cached.timestamp < CACHE_TTL
cacheHit(force, cached, t) ==
    ~force /\ cached.present /\ t - cached.timestamp < CACHE_TTL

\* new Error(`All providers failed for ${url}`)
exhausted(u) == [status |-> "error", text |-> <<"A","l","l"," ","p","r","o","v","i","d","e","r","s"," ","f","a","i","l","e","d"," ","f","o","r"," ">> \o asString(u)]

\* if (result): the orchestrator's test of what a strategy returned
accepted(result) == truthy(result)

\* The providers' results, the URL classes and the outputs, tabulated over the
\* inputs above: each is the operator it names, evaluated on every input
fetchResult == [resp \in Responses |-> tryFetch(resp)] @@ <<>>

jinaResult == [resp \in Responses |-> tryJina(resp)] @@ <<>>

playwrightResult == [resp \in BrowserOutcomes |-> tryPlaywright(resp)] @@ <<>>

fxTwitterResult == [u \in AllUrls |-> [resp \in FxResponses |-> tryFxTwitter(u, resp)] @@ <<>>] @@ <<>>

twitterUrl == [u \in Keys |-> isTwitterUrl(asString(u))] @@ <<>>

tweetPath == [u \in AllUrls |-> extractTweetPath(u)] @@ <<>>

\* every content a strategy can hand to the orchestrator
Contents ==
    {fetchResult[r].text : r \in Responses} \cup {jinaResult[r].text : r \in Responses}
        \cup {playwrightResult[r].text : r \in BrowserOutcomes}
        \cup {fxTwitterResult[u][r].text : u \in AllUrls, r \in FxResponses}

outputOf == [c \in Contents |-> [o \in Objectives |-> output(c, o)] @@ <<>>] @@ <<>>

\* the server has started: nothing cached, no call made, no browser launched
InitServer ==
    /\ cache = [u \in Keys |-> NoEntry]
    /\ now = 0
    /\ ticks = 0
    /\ started = 0
    /\ pc = [p \in Procs |-> "idle"]
    /\ url = [p \in Procs |-> <<>>]
    /\ objective = [p \in Procs |-> Null]
    /\ forceRefetch = [p \in Procs |-> FALSE]
    /\ invoked = [p \in Procs |-> <<>>]
    /\ returned = [p \in Procs |-> <<>>]
    /\ sawEntry = [p \in Procs |-> [entry |-> NoEntry, at |-> 0]]
    /\ ret = [p \in Procs |-> Pending]
    /\ wrote = [p \in Procs |-> NoEntry]
    /\ writer = [u \in Keys |-> 0]
    /\ requests = [p \in Procs |-> <<>>]
    /\ response = [p \in Procs |-> NoResponse]
    /\ browserInstance = 0
    /\ browsers = <<>>
    /\ pages = <<>>
    /\ rendered = [p \in Procs |-> Null]
    /\ browser = [p \in Procs |-> 0]

Init ==
    /\ InitServer
    /\ vText = <<>>
    /\ vOut = "none"
    /\ fContent = <<>>
    /\ fObjective = <<>>
    /\ fOut = Null

\* time passes
Tick ==
    /\ ticks < MaxTicks
    /\ \E d \in TickSteps : now' = now + d
    /\ ticks' = ticks + 1
    /\ UNCHANGED <<cache, started, pc, url, objective, forceRefetch, invoked,
                   returned, sawEntry, ret, wrote, writer, requests, response,
                   browserVars, validVars, filterVars>>

\* a call begins in a slot that holds no call in flight
begin(p, u, obj, force) ==
    /\ pc[p] \in {"idle", "returned", "threw"}
    /\ response[p].status # "awaiting"
    /\ started' = started + 1
    /\ url' = [url EXCEPT ![p] = u]
    /\ objective' = [objective EXCEPT ![p] = obj]
    /\ forceRefetch' = [forceRefetch EXCEPT ![p] = force]
    /\ sawEntry' = [sawEntry EXCEPT ![p] = [entry |-> cache[u], at |-> now]]
    /\ wrote' = [wrote EXCEPT ![p] = NoEntry]
    /\ browser' = [browser EXCEPT ![p] = 0]
    /\ returned' = [returned EXCEPT ![p] = <<>>]

\* the request a strategy issues for u: fetch and page.goto reject undefined
\* before anything is sent
asked(u, name) == IF u = UNDEFINED /\ name # "jina" THEN <<>> ELSE <<name>>

\* the cache hit with the entry's timestamp set to the time of the read
readCached_refreshes(p, u, obj, force) ==
    /\ begin(p, u, obj, force)
    /\ cacheHit(force, cache[u], now)
    /\ pc' = [pc EXCEPT ![p] = "returned"]
    /\ invoked' = [invoked EXCEPT ![p] = <<>>]
    /\ requests' = [requests EXCEPT ![p] = <<>>]
    /\ ret' = [ret EXCEPT ![p] = [status |-> "value",
                                  text |-> outputOf[cache[u].content][obj]]]
    /\ cache' = [cache EXCEPT ![u] = Entry(@.content, now)]
    /\ UNCHANGED <<writer, now, ticks, browserInstance, browsers, pages, rendered,
                   validVars, filterVars>>

\* readWebPage(u, obj, force) up to the cache hit's return
readCached(p, u, obj, force) ==
    /\ begin(p, u, obj, force)
    /\ cacheHit(force, cache[u], now)
    /\ pc' = [pc EXCEPT ![p] = "returned"]
    /\ invoked' = [invoked EXCEPT ![p] = <<>>]
    /\ requests' = [requests EXCEPT ![p] = <<>>]
    /\ ret' = [ret EXCEPT ![p] = [status |-> "value",
                                  text |-> outputOf[cache[u].content][obj]]]
    /\ UNCHANGED <<cache, writer, now, ticks, browserInstance, browsers, pages,
                   rendered,
                   validVars, filterVars>>

\* readWebPage(u, obj, force) past the cache check, up to the await of
\* tryFetch's request
readLive(p, u, obj, force) ==
    /\ begin(p, u, obj, force)
    /\ ~cacheHit(force, cache[u], now)
    /\ pc' = [pc EXCEPT ![p] = "tryFetch"]
    /\ invoked' = [invoked EXCEPT ![p] = <<"fetch">>]
    /\ requests' = [requests EXCEPT ![p] = asked(u, "fetch")]
    /\ ret' = [ret EXCEPT ![p] = Pending]
    /\ UNCHANGED <<cache, writer, now, ticks, browserInstance, browsers, pages,
                   rendered,
                   validVars, filterVars>>

\* a caller of the exported readWebPage is served from the cache
ReadCached(p) ==
    \E u \in URLS, obj \in Objectives, force \in BOOLEAN :
        /\ started < MaxCalls
        /\ readCached(p, u, obj, force)
        /\ UNCHANGED response

\* a caller of the exported readWebPage sets the chain going
ReadLive(p) ==
    \E u \in URLS, obj \in Objectives, force \in BOOLEAN :
        /\ started < MaxCalls
        /\ readLive(p, u, obj, force)
        /\ UNCHANGED response

\* cache.set under the URL without its last slash
succeed_normalizedKey(p, result, names) ==
    LET u == url[p]
        key == IF Len(u) > 0 /\ u[Len(u)] = "/" /\ SubSeq(u, 1, Len(u) - 1) \in Keys
               THEN SubSeq(u, 1, Len(u) - 1) ELSE u
    IN  /\ cache' = [cache EXCEPT ![key] = Entry(result.text, now)]
        /\ wrote' = [wrote EXCEPT ![p] = Entry(result.text, now)]
        /\ writer' = [writer EXCEPT ![key] = p]
        /\ pc' = [pc EXCEPT ![p] = "returned"]
        /\ ret' = [ret EXCEPT ![p] = [status |-> "value",
                                      text |-> outputOf[result.text][objective[p]]]]
        /\ invoked' = [invoked EXCEPT ![p] = @ \o names]
        /\ UNCHANGED <<requests, browserVars>>

\* cache.set with the timestamp left as it was
succeed_keepsTimestamp(p, result, names) ==
    /\ cache' = [cache EXCEPT ![url[p]] =
                    Entry(result.text, IF @.present THEN @.timestamp ELSE now)]
    /\ wrote' = [wrote EXCEPT ![p] = Entry(result.text, now)]
    /\ writer' = [writer EXCEPT ![url[p]] = p]
    /\ pc' = [pc EXCEPT ![p] = "returned"]
    /\ ret' = [ret EXCEPT ![p] = [status |-> "value",
                                  text |-> outputOf[result.text][objective[p]]]]
    /\ invoked' = [invoked EXCEPT ![p] = @ \o names]
    /\ UNCHANGED <<requests, browserVars>>

\* cache.set of what the caller gets, the filtered text
succeed_cachesOutput(p, result, names) ==
    /\ cache' = [cache EXCEPT ![url[p]] =
                    Entry(outputOf[result.text][objective[p]], now)]
    /\ wrote' = [wrote EXCEPT ![p] = Entry(outputOf[result.text][objective[p]], now)]
    /\ writer' = [writer EXCEPT ![url[p]] = p]
    /\ pc' = [pc EXCEPT ![p] = "returned"]
    /\ ret' = [ret EXCEPT ![p] = [status |-> "value",
                                  text |-> outputOf[result.text][objective[p]]]]
    /\ invoked' = [invoked EXCEPT ![p] = @ \o names]
    /\ UNCHANGED <<requests, browserVars>>

\* cache.set(url, {content: result, timestamp: Date.now()}); return
succeed(p, result, names) ==
    /\ cache' = [cache EXCEPT ![url[p]] = Entry(result.text, now)]
    /\ wrote' = [wrote EXCEPT ![p] = Entry(result.text, now)]
    /\ writer' = [writer EXCEPT ![url[p]] = p]
    /\ pc' = [pc EXCEPT ![p] = "returned"]
    /\ ret' = [ret EXCEPT ![p] = [status |-> "value",
                                  text |-> outputOf[result.text][objective[p]]]]
    /\ invoked' = [invoked EXCEPT ![p] = @ \o names]
    /\ UNCHANGED <<requests, browserVars>>

\* the call goes on to the strategies names and awaits the request of the last
await(p, at, names) ==
    /\ pc' = [pc EXCEPT ![p] = at]
    /\ invoked' = [invoked EXCEPT ![p] = @ \o names]
    /\ requests' = [requests EXCEPT ![p] = @ \o asked(url[p], names[Len(names)])]
    /\ UNCHANGED <<cache, ret, wrote, writer, browserVars>>

\* browserInstance?.isConnected() taken as false always
isConnected_never(instance, launched) == FALSE

\* browserInstance?.isConnected()
isConnected(instance, launched) == instance # 0 /\ launched[instance]

\* tryPlaywright up to its first await: getBrowser returns the connected
\* browser, or calls chromium.launch and awaits it
getBrowser(p) ==
    /\ invoked' = [invoked EXCEPT ![p] = @ \o <<"playwright">>]
    /\ IF isConnected(browserInstance, browsers)
       THEN /\ pc' = [pc EXCEPT ![p] = "tryPlaywright"]
            /\ browser' = [browser EXCEPT ![p] = browserInstance]
            /\ requests' = [requests EXCEPT ![p] = @ \o asked(url[p], "playwright")]
       ELSE /\ pc' = [pc EXCEPT ![p] = "launch"]
            /\ UNCHANGED <<browser, requests>>
    /\ UNCHANGED <<cache, ret, wrote, writer, browserInstance, browsers, pages,
                   rendered>>

\* the throw with the entry of the URL deleted first
fail_dropsEntry(p) ==
    /\ pc' = [pc EXCEPT ![p] = "threw"]
    /\ ret' = [ret EXCEPT ![p] = exhausted(url[p])]
    /\ cache' = [cache EXCEPT ![url[p]] = NoEntry]
    /\ UNCHANGED <<wrote, writer, invoked, requests>>

\* throw new Error(`All providers failed for ${url}`)
fail(p) ==
    /\ pc' = [pc EXCEPT ![p] = "threw"]
    /\ ret' = [ret EXCEPT ![p] = exhausted(url[p])]
    /\ UNCHANGED <<cache, wrote, writer, invoked, requests>>

\* tryFetch settles; Layer 1 returns or the call goes on to Layer 2 or 3.  A
\* Twitter URL without a tweet path gets tryFxTwitter's null at once.
FetchSettles(p) ==
    /\ pc[p] = "tryFetch"
    /\ \E resp \in responsesTo(url[p]) :
        LET result == fetchResult[resp]
            early == fxTwitterResult[url[p]][NO_ANSWER]
        IN  IF accepted(result)
            THEN /\ returned' = [returned EXCEPT ![p] = @ \o <<result>>]
                 /\ succeed(p, result, <<>>)
            ELSE IF ~twitterUrl[url[p]]
            THEN /\ returned' = [returned EXCEPT ![p] = @ \o <<result>>]
                 /\ await(p, "tryJina", <<"jina">>)
            ELSE IF tweetPath[url[p]].present
            THEN /\ returned' = [returned EXCEPT ![p] = @ \o <<result>>]
                 /\ await(p, "tryFxTwitter", <<"fxtwitter">>)
            ELSE /\ returned' = [returned EXCEPT ![p] = @ \o <<result, early>>]
                 /\ IF accepted(early)
                    THEN succeed(p, early, <<"fxtwitter">>)
                    ELSE await(p, "tryJina", <<"fxtwitter", "jina">>)
    /\ UNCHANGED <<now, ticks, started, url, objective, forceRefetch, sawEntry,
                   response, validVars, filterVars>>

\* tryFxTwitter's request settles; Layer 2 returns or the call goes on
FxTwitterSettles(p) ==
    /\ pc[p] = "tryFxTwitter"
    /\ \E resp \in FxResponses :
        LET result == fxTwitterResult[url[p]][resp]
        IN  /\ returned' = [returned EXCEPT ![p] = @ \o <<result>>]
            /\ IF accepted(result)
               THEN succeed(p, result, <<>>)
               ELSE await(p, "tryJina", <<"jina">>)
    /\ UNCHANGED <<now, ticks, started, url, objective, forceRefetch, sawEntry,
                   response, validVars, filterVars>>

\* tryJina settles; Layer 3 returns or the call goes on to Layer 4
JinaSettles(p) ==
    /\ pc[p] = "tryJina"
    /\ \E resp \in Responses :
        LET result == jinaResult[resp]
        IN  /\ returned' = [returned EXCEPT ![p] = @ \o <<result>>]
            /\ IF accepted(result)
               THEN succeed(p, result, <<>>)
               ELSE getBrowser(p)
    /\ UNCHANGED <<now, ticks, started, url, objective, forceRefetch, sawEntry,
                   response, validVars, filterVars>>

\* chromium.launch settles, and browserInstance is assigned only while null
LaunchSettles_keepsFirst(p) ==
    /\ pc[p] = "launch"
    /\ \E launched \in BOOLEAN :
        IF launched
        THEN /\ browsers' = Append(browsers, TRUE)
             /\ pages' = Append(pages, 0)
             /\ browserInstance' = IF browserInstance = 0 THEN Len(browsers) + 1
                                   ELSE browserInstance
             /\ browser' = [browser EXCEPT ![p] = browserInstance']
             /\ pc' = [pc EXCEPT ![p] = "tryPlaywright"]
             /\ requests' = [requests EXCEPT ![p] = @ \o asked(url[p], "playwright")]
             /\ UNCHANGED <<cache, ret, wrote, writer, invoked, returned, rendered>>
        ELSE /\ returned' = [returned EXCEPT ![p] =
                                @ \o <<playwrightResult[[kind |-> "error", body |-> <<>>]]>>]
             /\ fail(p)
             /\ UNCHANGED browserVars
    /\ UNCHANGED <<now, ticks, started, url, objective, forceRefetch, sawEntry,
                   response, validVars, filterVars>>

\* chromium.launch settles: getBrowser assigns browserInstance and returns it,
\* or the launch has thrown, tryPlaywright returns null and readWebPage throws
LaunchSettles(p) ==
    /\ pc[p] = "launch"
    /\ \E launched \in BOOLEAN :
        IF launched
        THEN /\ browsers' = Append(browsers, TRUE)
             /\ pages' = Append(pages, 0)
             /\ browserInstance' = Len(browsers) + 1
             /\ browser' = [browser EXCEPT ![p] = Len(browsers) + 1]
             /\ pc' = [pc EXCEPT ![p] = "tryPlaywright"]
             /\ requests' = [requests EXCEPT ![p] = @ \o asked(url[p], "playwright")]
             /\ UNCHANGED <<cache, ret, wrote, writer, invoked, returned, rendered>>
        ELSE /\ returned' = [returned EXCEPT ![p] =
                                @ \o <<playwrightResult[[kind |-> "error", body |-> <<>>]]>>]
             /\ fail(p)
             /\ UNCHANGED browserVars
    /\ UNCHANGED <<now, ticks, started, url, objective, forceRefetch, sawEntry,
                   response, validVars, filterVars>>

\* tryPlaywright from newPage to its return, taken as one step, in which the
\* page is opened and closed; Layer 4 returns or readWebPage throws
PlaywrightSettles(p) ==
    /\ pc[p] = "tryPlaywright"
    /\ \E resp \in outcomesOf(url[p]) :
        LET result == playwrightResult[resp]
        IN  /\ returned' = [returned EXCEPT ![p] = @ \o <<result>>]
            /\ IF accepted(result)
               THEN succeed(p, result, <<>>)
               ELSE fail(p) /\ UNCHANGED browserVars
    /\ UNCHANGED <<now, ticks, started, url, objective, forceRefetch, sawEntry,
                   response, validVars, filterVars>>

Next ==
    \/ Tick
    \/ \E p \in Sequential : ReadCached(p)
    \/ \E p \in Sequential : ReadLive(p)
    \/ \E p \in Sequential : FetchSettles(p)
    \/ \E p \in Sequential : FxTwitterSettles(p)
    \/ \E p \in Sequential : JinaSettles(p)
    \/ \E p \in Sequential : LaunchSettles(p)
    \/ \E p \in Sequential : PlaywrightSettles(p)

Spec == Init /\ [][Next]_vars

----------------------------------------------------------------------------
(* isValidContent on its own: every input text, then the verdict *)

\* the phrases a text is put together from
MaxPieces == 2

\* junk phrases as listed, in other letter cases, near misses, and plain text
Pieces ==
    {JUNK_INDICATORS[k] : k \in 1..Len(JUNK_INDICATORS)}
        \cup { <<"E","n","a","b","l","e"," ","J","a","v","a","S","c","r","i","p","t">>, <<"T","R","Y"," ","A","G","A","I","N">>, <<"A","c","c","e","s","s"," ","D","e","n","i","e","d">>,
               <<"e","n","a","b","l","e"," ","j","a","v","a"," ","s","c","r","i","p","t">>, <<"t","r","y"," ","a","g","a","i">>, <<"j","u","s","t"," ","a"," "," ","m","o","m","e","n","t">>,
               <<"H","e","l","l","o"," ","w","o","r","l","d","."," ">>, <<"\n">> }

RECURSIVE piecesUpTo(_)
piecesUpTo(n) ==
    IF n = 0 THEN {<<>>}
    ELSE piecesUpTo(n - 1) \cup {t \o q : t \in piecesUpTo(n - 1), q \in Pieces}

\* s as it is when long enough, else filled up to length n
padTo(s, n) == IF Len(s) >= n THEN s ELSE s \o fill("x", n - Len(s))

\* texts left short, and texts filled up to just below, at and above the
\* minimum length
ValidatorInputs ==
    {padTo(t, n) : t \in piecesUpTo(MaxPieces),
                   n \in {0, MIN_CONTENT_LENGTH - 1, MIN_CONTENT_LENGTH, MIN_CONTENT_LENGTH + 1}}

InitValid ==
    /\ InitServer
    /\ vText \in ValidatorInputs
    /\ vOut = "none"
    /\ fContent = <<>>
    /\ fObjective = <<>>
    /\ fOut = Null

Validate ==
    /\ vOut = "none"
    /\ vOut' = IF isValidContent(vText) THEN "valid" ELSE "invalid"
    /\ UNCHANGED <<vText, orchVars, filterVars>>

NextValid == Validate

SpecValid == InitValid /\ [][NextValid]_vars

----------------------------------------------------------------------------
(* filterByObjective on its own: every content and objective, then the result *)

\* the lines a content is put together from
MaxLines == 2

ContentLines ==
    { <<"P","r","i","c","e",":"," ","$","1","0">>, <<"S","h","i","p","p","i","n","g",":"," ","f","r","e","e">>, <<"C","o","n","t","a","c","t"," ","u","s">>, <<"P","R","I","C","E"," ","l","i","s","t">>, <<>> }

RECURSIVE linesUpTo(_)
linesUpTo(n) ==
    IF n = 0 THEN {<<>>}
    ELSE linesUpTo(n - 1) \cup {Append(t, q) : t \in linesUpTo(n - 1), q \in ContentLines}

FilterContents == {joinLines(ls) : ls \in linesUpTo(MaxLines)}

Keywords == { <<"p","r","i","c","e">>, <<"S","h","i","p","p","i","n","g">>, <<"x","y","z","z","y">> }

\* one keyword or two, single-spaced or with repeated, leading or trailing
\* white space; the empty objective and one of white space alone
FilterObjectives ==
    {lead \o k \o trail : lead \in {<<>>, <<" ">>}, k \in Keywords, trail \in {<<>>, <<" ">>}}
        \cup {k \o sep \o j : k \in Keywords, j \in Keywords, sep \in {<<" ">>, <<" ", "\t">>}}
        \cup {<<>>, <<" ">>}

InitFilter ==
    /\ InitServer
    /\ vText = <<>>
    /\ vOut = "none"
    /\ fContent \in FilterContents
    /\ fObjective \in FilterObjectives
    /\ fOut = Null

Filter ==
    /\ ~fOut.present
    /\ fOut' = Some(filterByObjective(fContent, fObjective))
    /\ UNCHANGED <<fContent, fObjective, orchVars, validVars>>

NextFilter == Filter

SpecFilter == InitFilter /\ [][NextFilter]_vars

----------------------------------------------------------------------------
(* The MCP server's CallTool handler in front of readWebPage *)

READ_WEB_PAGE == <<"r","e","a","d","_","w","e","b","_","p","a","g","e">>

\* the tool names a client may ask for: the one the server lists, and another
ToolNames == {READ_WEB_PAGE, <<"s","c","r","e","e","n","s","h","o","t">>}

\* the handler awaits readWebPage
Awaiting == [status |-> "awaiting", isError |-> FALSE, text |-> <<>>]

\* throw new Error(`Unknown tool: ${name}`): the handler rejects
unknownTool(name) ==
    [status |-> "thrown", isError |-> FALSE, text |-> <<"U","n","k","n","o","w","n"," ","t","o","o","l",":"," ">> \o name]

\* return { content: [{ type: "text", text: result }] }
toolResult(result) == [status |-> "sent", isError |-> FALSE, text |-> result]

\* the catch clause answering without isError
toolError_unflagged(message) ==
    [status |-> "sent", isError |-> FALSE, text |-> <<"E","r","r","o","r"," ","r","e","a","d","i","n","g"," ","w","e","b"," ","p","a","g","e",":"," ">> \o message]

\* return { content: [{ type: "text", text: `Error reading web page: ...` }], isError: true }
toolError(message) ==
    [status |-> "sent", isError |-> TRUE, text |-> <<"E","r","r","o","r"," ","r","e","a","d","i","n","g"," ","w","e","b"," ","p","a","g","e",":"," ">> \o message]

\* the handler up to its await: the name is checked, url, objective and
\* forceRefetch are taken from the arguments as they are, url possibly
\* undefined, and readWebPage is called
CallTool(p) ==
    \E name \in ToolNames, u \in Keys, obj \in Objectives, force \in BOOLEAN :
        IF name # READ_WEB_PAGE
        THEN /\ pc[p] \in {"idle", "returned", "threw"}
             /\ response[p].status # "awaiting"
             /\ started < MaxCalls
             /\ started' = started + 1
             /\ response' = [response EXCEPT ![p] = unknownTool(name)]
             /\ UNCHANGED <<cache, now, ticks, pc, url, objective, forceRefetch,
                            invoked, returned, sawEntry, ret, wrote, writer,
                            requests, browserVars, validVars, filterVars>>
        ELSE /\ started < MaxCalls
             /\ readCached(p, u, obj, force) \/ readLive(p, u, obj, force)
             /\ response' = [response EXCEPT ![p] = Awaiting]

\* readWebPage has settled and the handler answers
Respond(p) ==
    /\ response[p].status = "awaiting"
    /\ pc[p] \in {"returned", "threw"}
    /\ response' = [response EXCEPT ![p] =
                        IF pc[p] = "returned" THEN toolResult(ret[p].text)
                        ELSE toolError(ret[p].text)]
    /\ UNCHANGED <<cache, now, ticks, started, pc, url, objective, forceRefetch,
                   invoked, returned, sawEntry, ret, wrote, writer, requests,
                   browserVars, validVars, filterVars>>

\* tool calls, one settled before the next is made
NextTool ==
    \/ \E p \in Sequential : CallTool(p)
    \/ \E p \in Sequential : FetchSettles(p)
    \/ \E p \in Sequential : FxTwitterSettles(p)
    \/ \E p \in Sequential : JinaSettles(p)
    \/ \E p \in Sequential : LaunchSettles(p)
    \/ \E p \in Sequential : PlaywrightSettles(p)
    \/ \E p \in Sequential : Respond(p)

SpecTool == Init /\ [][NextTool]_vars

----------------------------------------------------------------------------
(* Callers of one page: the shared browser, and calls in flight together *)

\* a caller of the exported readWebPage asks for U_PAGE, all of it
ReadShared(p) ==
    /\ started < MaxCalls
    /\ readCached(p, U_PAGE, Null, FALSE) \/ readLive(p, U_PAGE, Null, FALSE)
    /\ UNCHANGED response

\* a caller of the exported readWebPage asks for U_PAGE once more
ReadPage(p) ==
    \E obj \in Objectives, force \in BOOLEAN :
        /\ started < MaxReads
        /\ readCached(p, U_PAGE, obj, force) \/ readLive(p, U_PAGE, obj, force)
        /\ UNCHANGED response

\* a launched browser loses its connection: it crashed or was closed from
\* outside, and its pages are gone with it
Disconnect ==
    /\ \E h \in 1..Len(browsers) :
        /\ browsers[h]
        /\ browsers' = [browsers EXCEPT ![h] = FALSE]
        /\ pages' = [pages EXCEPT ![h] = 0]
    /\ UNCHANGED <<cache, now, ticks, started, pc, url, objective, forceRefetch,
                   invoked, returned, sawEntry, ret, wrote, writer, requests,
                   response, browserInstance, rendered, browser, validVars,
                   filterVars>>

\* calls for one page one after the other, and a browser that may drop out between them
NextPage ==
    \/ Tick
    \/ \E p \in Sequential : ReadPage(p)
    \/ \E p \in Sequential : FetchSettles(p)
    \/ \E p \in Sequential : JinaSettles(p)
    \/ \E p \in Sequential : LaunchSettles(p)
    \/ \E p \in Sequential : PlaywrightSettles(p)
    \/ Disconnect

SpecPage == Init /\ [][NextPage]_vars

\* calls in flight together: each await lets the other call run
NextConcurrent ==
    \/ Tick
    \/ \E p \in Procs : ReadShared(p)
    \/ \E p \in Procs : FetchSettles(p)
    \/ \E p \in Procs : JinaSettles(p)
    \/ \E p \in Procs : LaunchSettles(p)
    \/ \E p \in Procs : PlaywrightSettles(p)

SpecConcurrent == Init /\ [][NextConcurrent]_vars

----------------------------------------------------------------------------
(* tryPlaywright await by await: the page it opens and closes *)

\* what the inner try can end with on the browser of slot p: on a browser that
\* has lost its connection every page call throws
renderOutcomes(p) ==
    IF browsers[browser[p]] THEN outcomesOf(url[p])
    ELSE [kind : {"error"}, body : {<<>>}]

\* browser.newPage settles: the page is open, or newPage has thrown,
\* tryPlaywright returns null and readWebPage throws
PageOpens(p) ==
    /\ pc[p] = "tryPlaywright"
    /\ \E opened \in {o \in BOOLEAN : o => browsers[browser[p]]} :
        IF opened
        THEN /\ pages' = [pages EXCEPT ![browser[p]] = @ + 1]
             /\ pc' = [pc EXCEPT ![p] = "render"]
             /\ UNCHANGED <<cache, ret, wrote, writer, invoked, returned, requests,
                            browserInstance, browsers, rendered, browser>>
        ELSE /\ returned' = [returned EXCEPT ![p] =
                                @ \o <<playwrightResult[[kind |-> "error", body |-> <<>>]]>>]
             /\ fail(p)
             /\ UNCHANGED browserVars
    /\ UNCHANGED <<now, ticks, started, url, objective, forceRefetch, sawEntry,
                   response, validVars, filterVars>>

\* the inner try with the page closed only when nothing was thrown
RenderSettles_leaksOnError(p) ==
    /\ pc[p] = "render"
    /\ \E resp \in renderOutcomes(p) :
        /\ rendered' = [rendered EXCEPT ![p] = playwrightResult[resp]]
        /\ pc' = [pc EXCEPT ![p] = IF resp.kind = "error" THEN "leave" ELSE "closePage"]
    /\ UNCHANGED <<cache, now, ticks, started, url, objective, forceRefetch,
                   invoked, returned, sawEntry, ret, wrote, writer, requests,
                   response, browserInstance, browsers, pages, browser,
                   validVars, filterVars>>

\* the inner try ends: route, init script, headers, goto, the wait,
\* page.content and htmlToMarkdown gave the Markdown, or one of them threw;
\* either way the finally clause calls page.close and awaits it
RenderSettles(p) ==
    /\ pc[p] = "render"
    /\ \E resp \in renderOutcomes(p) :
        rendered' = [rendered EXCEPT ![p] = playwrightResult[resp]]
    /\ pc' = [pc EXCEPT ![p] = "closePage"]
    /\ UNCHANGED <<cache, now, ticks, started, url, objective, forceRefetch,
                   invoked, returned, sawEntry, ret, wrote, writer, requests,
                   response, browserInstance, browsers, pages, browser,
                   validVars, filterVars>>

\* page.close settles: the page is closed; on a browser that has lost its
\* connection the page is gone already and close may throw, which the outer
\* catch turns into null
PageCloses(p) ==
    /\ pc[p] = "closePage"
    /\ IF browsers[browser[p]]
       THEN /\ pages' = [pages EXCEPT ![browser[p]] = @ - 1]
            /\ UNCHANGED rendered
       ELSE /\ \E thrown \in BOOLEAN :
                rendered' = [rendered EXCEPT ![p] = IF thrown THEN Null ELSE @]
            /\ UNCHANGED pages
    /\ pc' = [pc EXCEPT ![p] = "leave"]
    /\ UNCHANGED <<cache, now, ticks, started, url, objective, forceRefetch,
                   invoked, returned, sawEntry, ret, wrote, writer, requests,
                   response, browserInstance, browsers, browser, validVars,
                   filterVars>>

\* tryPlaywright returns what the inner try ended with; Layer 4 returns or
\* readWebPage throws
PlaywrightReturns(p) ==
    /\ pc[p] = "leave"
    /\ LET result == rendered[p]
       IN  /\ returned' = [returned EXCEPT ![p] = @ \o <<result>>]
           /\ IF accepted(result)
              THEN succeed(p, result, <<>>)
              ELSE fail(p) /\ UNCHANGED browserVars
    /\ UNCHANGED <<now, ticks, started, url, objective, forceRefetch, sawEntry,
                   response, validVars, filterVars>>

\* a caller of the exported readWebPage asks for U_PAGE, from the cache or
\* afresh
ReadOrRefetch(p) ==
    \E force \in BOOLEAN :
        /\ started < MaxCalls
        /\ readCached(p, U_PAGE, Null, force) \/ readLive(p, U_PAGE, Null, force)
        /\ UNCHANGED response

\* calls in flight together, tryPlaywright await by await, and browsers that
\* may drop out
NextRender ==
    \/ \E p \in Procs : ReadOrRefetch(p)
    \/ \E p \in Procs : FetchSettles(p)
    \/ \E p \in Procs : JinaSettles(p)
    \/ \E p \in Procs : LaunchSettles(p)
    \/ \E p \in Procs : PageOpens(p)
    \/ \E p \in Procs : RenderSettles(p)
    \/ \E p \in Procs : PageCloses(p)
    \/ \E p \in Procs : PlaywrightReturns(p)
    \/ Disconnect

SpecRender == Init /\ [][NextRender]_vars

----------------------------------------------------------------------------
(* What the claims speak of, said without the program's own operators *)

\* 24 hours in milliseconds
DAY_MS == 24 * 60 * 60 * 1000

\* a and b are the same character up to letter case
sameLetter(a, b) ==
    a = b \/ \E i \in 1..26 : {a, b} = {UpperLetters[i], LowerLetters[i]}

\* the non-empty w occurs in s in some letter case
containsAnyCase(s, w) ==
    /\ Len(w) > 0
    /\ \E at \in 1..Len(s) :
        /\ at + Len(w) - 1 <= Len(s)
        /\ \A j \in 1..Len(w) : sameLetter(s[at + j - 1], w[j])

\* the white-space-delimited keywords of an objective: its maximal runs of
\* characters that are not white space
keywordsOf(obj) ==
    {SubSeq(obj, i, j) : <<i, j>> \in
        {ij \in (1..Len(obj)) \X (1..Len(obj)) :
            /\ ij[1] <= ij[2]
            /\ \A k \in ij[1]..ij[2] : obj[k] \notin WhiteSpace
            /\ (ij[1] = 1 \/ obj[ij[1] - 1] \in WhiteSpace)
            /\ (ij[2] = Len(obj) \/ obj[ij[2] + 1] \in WhiteSpace)}}

\* the line contains one of the objective's keywords in some letter case
lineMatches(line, obj) == \E w \in keywordsOf(obj) : containsAnyCase(line, w)

\* the lines of the content that match the objective, in their order
matchingLines(content, obj) ==
    LET matches(line) == lineMatches(line, obj)
    IN  SelectSeq(splitLines(content), matches)

\* the URLs of the model whose host is x.com or twitter.com
SocialUrls == {U_POST, U_HOME}

\* the strategies that apply to a URL, in the order of the fallback chain
chainFor(u) ==
    IF u \in SocialUrls THEN <<"fetch", "fxtwitter", "jina", "playwright">>
    ELSE <<"fetch", "jina", "playwright">>

isPrefix(a, b) == Len(a) <= Len(b) /\ \A i \in 1..Len(a) : a[i] = b[i]

\* the call of slot p awaits a strategy
inFlight(p) ==
    pc[p] \in {"tryFetch", "tryFxTwitter", "tryJina", "launch", "tryPlaywright", "render",
               "closePage", "leave"}

\* the call of slot p has settled
settled(p) == pc[p] \in {"returned", "threw"}

\* the entry the call of slot p found at its cache check was younger than 24 h
sawFresh(p) ==
    /\ sawEntry[p].entry.present
    /\ sawEntry[p].at - sawEntry[p].entry.timestamp < DAY_MS

\* the content filtered by the objective when one is supplied
filteredBy == [c \in Contents |-> [o \in Objectives |->
                  IF o.present THEN filterByObjective(c, o.text) ELSE c] @@ <<>>] @@ <<>>

\* what the last strategy the call of slot p called returned
lastReturned(p) == returned[p][Len(returned[p])]

\* the cache entry of the call's URL holds what the call retrieved, stamped
\* during the call
wroteEntry(p) ==
    LET e == cache[url[p]]
    IN  /\ Len(returned[p]) > 0
        /\ e.present
        /\ e.content = lastReturned(p).text
        /\ sawEntry[p].at <= e.timestamp
        /\ e.timestamp <= now

----------------------------------------------------------------------------
(* The claims *)

\* C1: a call with forceRefetch=false that finds a cache entry younger than
\* the TTL invokes no strategy and returns the cached content, filtered by
\* the objective when one is supplied.
C1_CacheHitInvokesNoStrategy ==
    \A p \in Procs :
        (pc[p] # "idle" /\ ~forceRefetch[p] /\ sawFresh(p))
            => /\ pc[p] = "returned"
               /\ invoked[p] = <<>>
               /\ returned[p] = <<>>
               /\ ret[p].status = "value"
               /\ ret[p].text = filteredBy[sawEntry[p].entry.content][objective[p]]

\* C1's case: a second call hit the cache and returned a filtered excerpt
C1_Witness ==
    \E p \in Procs :
        /\ started = 2
        /\ pc[p] = "returned"
        /\ ~forceRefetch[p]
        /\ sawFresh(p)
        /\ invoked[p] = <<>>
        /\ objective[p].present
        /\ ret[p].text # sawEntry[p].entry.content

\* C2 as stated: a call with forceRefetch=true re-executes the chain from the
\* first strategy even when a valid entry exists, and overwrites the entry.
C2_ForceRefetchAlwaysOverwrites ==
    \A p \in Procs :
        (pc[p] # "idle" /\ forceRefetch[p])
            => /\ Len(invoked[p]) > 0
               /\ invoked[p][1] = "fetch"
               /\ (settled(p) => wroteEntry(p))

\* C2 as amended: a call with forceRefetch=true re-executes the chain from the
\* first strategy even when a valid entry exists, and overwrites the entry
\* when it returns content.
C2_ForceRefetchOverwritesOnSuccess ==
    \A p \in Procs :
        (pc[p] # "idle" /\ forceRefetch[p])
            => /\ Len(invoked[p]) > 0
               /\ invoked[p][1] = "fetch"
               /\ (pc[p] = "returned" => wroteEntry(p))

\* C2's case: a forced call found a valid entry and replaced it
C2_Witness ==
    \E p \in Procs :
        /\ forceRefetch[p]
        /\ pc[p] = "returned"
        /\ sawFresh(p)
        /\ wroteEntry(p)
        /\ cache[url[p]] # sawEntry[p].entry

\* C3: the strategies are invoked in the order fetch, social API (social URLs
\* only), reader API, browser; at most one is in flight; a strategy is invoked
\* only after every earlier one returned absent, so none after present content.
C3_StrictOrderOneAtATime ==
    \A p \in Procs :
        /\ isPrefix(invoked[p], chainFor(url[p]))
        /\ Len(invoked[p]) - Len(returned[p]) = (IF inFlight(p) THEN 1 ELSE 0)
        /\ \A i \in 1..Len(returned[p]) : i < Len(invoked[p]) => returned[p][i] = Null

\* C3's case: on a social URL the reader API gave content after fetch and the
\* social API returned absent, and the browser was not called
C3_Witness ==
    \E p \in Procs :
        /\ pc[p] = "returned"
        /\ url[p] = U_POST
        /\ invoked[p] = <<"fetch", "fxtwitter", "jina">>
        /\ returned[p][1] = Null
        /\ returned[p][2] = Null
        /\ returned[p][3].present

\* C4: a call that misses the cache fails, with an error naming the URL, if
\* every applicable strategy returned absent, and returns normally if one
\* returned present content.
C4_FailsExactlyWhenAllAbsent ==
    \A p \in Procs :
        (settled(p) /\ Len(invoked[p]) > 0)
            => /\ (\A i \in 1..Len(returned[p]) : ~returned[p][i].present)
                      => /\ pc[p] = "threw"
                         /\ ret[p].status = "error"
                         /\ includes(ret[p].text, url[p])
               /\ (\E i \in 1..Len(returned[p]) : returned[p][i].present)
                      => /\ pc[p] = "returned"
                         /\ ret[p].status = "value"

\* C5: whenever the browser strategy is reached and produces Markdown without
\* an internal error, the call succeeds with that Markdown and caches it,
\* whatever its length or content.
C5_BrowserOutputAcceptedUnconditionally ==
    \A p \in Procs :
        (/\ settled(p)
         /\ Len(invoked[p]) > 0
         /\ invoked[p][Len(invoked[p])] = "playwright"
         /\ lastReturned(p).present)
            => /\ pc[p] = "returned"
               /\ ret[p].status = "value"
               /\ ret[p].text = filteredBy[lastReturned(p).text][objective[p]]
               /\ wroteEntry(p)

\* C6: isValidContent(text) is true exactly when the text has at least 200
\* characters and contains no junk phrase in any letter case.
C6_ValidIffLongAndNoJunk ==
    vOut # "none"
        => ((vOut = "valid")
               <=> /\ Len(vText) >= 200
                   /\ ~\E k \in 1..Len(JUNK_INDICATORS) :
                           containsAnyCase(vText, JUNK_INDICATORS[k]))

\* C6's case: a text of 200 characters and more was rejected for a junk
\* phrase written in another letter case
C6_Witness ==
    /\ vOut = "invalid"
    /\ Len(vText) >= 200
    /\ includes(vText, <<"E","n","a","b","l","e"," ","J","a","v","a","S","c","r","i","p","t">>)
    /\ \A k \in 1..Len(JUNK_INDICATORS) : ~includes(vText, JUNK_INDICATORS[k])

\* a failed request or a rejected body is an absent result of the strategy
strategiesSwallowFailures ==
    /\ \A r \in Responses :
           r.kind # "ok" => fetchResult[r] = Null /\ jinaResult[r] = Null
    /\ \A r \in Responses :
           (Len(r.body) < 200 \/ containsAnyCase(r.body, <<"e","n","a","b","l","e"," ","j","a","v","a","s","c","r","i","p","t">>))
               => jinaResult[r] = Null
    /\ \A r \in BrowserOutcomes : r.kind # "ok" => playwrightResult[r] = Null
    /\ \A u \in URLS : \A r \in FxResponses :
           r.kind # "ok" => fxTwitterResult[u][r] = Null

\* C7: a failure inside one strategy becomes an absent result and the chain
\* goes on with the next strategy; the only error readWebPage raises is the
\* exhaustion error, after all applicable strategies returned absent.
C7_OnlyExhaustionAfterAllAbsent ==
    /\ strategiesSwallowFailures
    /\ \A p \in Procs :
        /\ \A i \in 1..Len(returned[p]) :
               (returned[p][i] = Null /\ i < Len(chainFor(url[p])))
                   => /\ Len(invoked[p]) > i
                      /\ invoked[p][i + 1] = chainFor(url[p])[i + 1]
        /\ pc[p] = "threw"
               => /\ ret[p] = [status |-> "error",
                               text |-> <<"A","l","l"," ","p","r","o","v","i","d","e","r","s"," ","f","a","i","l","e","d"," ","f","o","r"," ">> \o url[p]]
                  /\ invoked[p] = chainFor(url[p])
                  /\ \A i \in 1..Len(returned[p]) : returned[p][i] = Null

\* C8: filterByObjective keeps exactly the lines that contain one of the
\* objective's white-space-delimited keywords in some letter case; when a line
\* is kept the result is the kept lines, in order, joined by newlines.
C8_KeepsExactlyMatchingLines ==
    fOut.present
        => LET kept == matchingLines(fContent, fObjective)
           IN  Len(kept) > 0 => fOut.text = joinLines(kept)

\* C9: when no line matches a keyword of the objective the result is the
\* content unchanged, and for non-empty content the result is never empty.
C9_NoMatchReturnsContent ==
    fOut.present
        => /\ Len(matchingLines(fContent, fObjective)) = 0 => fOut.text = fContent
           /\ Len(fContent) > 0 => Len(fOut.text) > 0

\* C9's case: no line of a two-line content matched the objective
C9_Witness ==
    /\ fOut.present
    /\ fObjective = <<"x","y","z","z","y">>
    /\ fContent = <<"P","r","i","c","e",":"," ","$","1","0","\n","C","o","n","t","a","c","t"," ","u","s">>
    /\ fOut.text = fContent

\* C10: with forceRefetch=false an entry of age 24 h or more is a miss, the
\* chain runs; an entry of age below 24 h is a hit; age = 24 h is a miss.
C10_EntryExpiresAtTtl ==
    \A p \in Procs :
        (pc[p] # "idle" /\ ~forceRefetch[p] /\ sawEntry[p].entry.present)
            => LET age == sawEntry[p].at - sawEntry[p].entry.timestamp
               IN  /\ age >= DAY_MS => Len(invoked[p]) > 0 /\ invoked[p][1] = "fetch"
                   /\ age < DAY_MS
                          => /\ invoked[p] = <<>>
                             /\ pc[p] = "returned"
                             /\ ret[p].text =
                                    filteredBy[sawEntry[p].entry.content][objective[p]]

\* C10's case: a call found an entry of age exactly 24 h and ran the chain
C10_Witness ==
    \E p \in Procs :
        /\ ~forceRefetch[p]
        /\ sawEntry[p].entry.present
        /\ sawEntry[p].at - sawEntry[p].entry.timestamp = DAY_MS
        /\ Len(invoked[p]) > 0

----------------------------------------------------------------------------
(* Claims C11 to C20 *)

\* where the host of URL u starts: after the scheme
hostFrom(u) ==
    IF occursAt(u, <<"h","t","t","p","s",":","/","/">>, 1) THEN 9
    ELSE IF occursAt(u, <<"h","t","t","p",":","/","/">>, 1) THEN 8 ELSE 1

\* u from position from on
tail(u, from) == SubSeq(u, from, Len(u))

\* the part of s before its first character of set, all of s when none
upTo(s, set) == IF firstIn(s, set) = 0 THEN s ELSE SubSeq(s, 1, firstIn(s, set) - 1)

\* the host of URL u
hostOf(u) == upTo(tail(u, hostFrom(u)), {"/", "?", "#"})

\* the path of URL u: from the host's end to the query or fragment
pathOf(u) == upTo(tail(u, hostFrom(u) + Len(hostOf(u))), {"?", "#"})

\* the path is /<user>/status/<id>, possibly with more after the id
isPostPath(path) ==
    \E user \in 1..(Len(path) - 1), id \in 1..Len(path) :
        LET head == <<"/">> \o SubSeq(path, 2, 1 + user) \o <<"/","s","t","a","t","u","s","/">>
        IN  /\ occursAt(path, head, 1)
            /\ \A i \in 2..(1 + user) : path[i] # "/"
            /\ Len(head) + id <= Len(path)
            /\ \A i \in (Len(head) + 1)..(Len(head) + id) : path[i] \in Digits
            /\ Len(head) + id < Len(path) => path[Len(head) + id + 1] \notin Digits

\* u is on x.com or twitter.com and its path is no post's
nonPostSocial(u) ==
    /\ toLowerCase(hostOf(u)) \in {<<"x",".","c","o","m">>, <<"t","w","i","t","t","e","r",".","c","o","m">>}
    /\ ~isPostPath(pathOf(u))

\* strategy name is among those the call of slot p has called
called(p, name) == \E i \in 1..Len(invoked[p]) : invoked[p][i] = name

\* the call of slot p has sent a request to strategy name's service
requested(p, name) == \E i \in 1..Len(requests[p]) : requests[p][i] = name

\* the place of strategy name in the calls of slot p
placeOf(p, name) == CHOOSE i \in 1..Len(invoked[p]) : invoked[p][i] = name

\* C11: for a URL on x.com or twitter.com whose path is not /user/status/id,
\* the social API strategy, once called, has returned absent, has sent no
\* request, and the reader API is the strategy called next
C11_NonPostPathSkipsSocialApi ==
    \A p \in Procs :
        (url[p] \in AllUrls /\ nonPostSocial(url[p]) /\ called(p, "fxtwitter")) =>
            /\ ~requested(p, "fxtwitter")
            /\ Len(returned[p]) >= placeOf(p, "fxtwitter")
            /\ returned[p][placeOf(p, "fxtwitter")] = Null
            /\ Len(invoked[p]) > placeOf(p, "fxtwitter")
            /\ invoked[p][placeOf(p, "fxtwitter") + 1] = "jina"

\* C11 holds on the URLs whose query names no tweet either
C11_HoldsWithoutTweetInQuery ==
    \A p \in Procs :
        (url[p] \in AllUrls \ {U_SHARE} /\ nonPostSocial(url[p]) /\ called(p, "fxtwitter")) =>
            /\ ~requested(p, "fxtwitter")
            /\ returned[p][placeOf(p, "fxtwitter")] = Null
            /\ invoked[p][placeOf(p, "fxtwitter") + 1] = "jina"

\* the slot p holds a read_web_page tool call, answered or not
toolCall(p) == response[p].status \in {"awaiting", "sent"}

\* C12: a read_web_page tool call without url is answered with an error at
\* once: no strategy is called for it, no request is sent, no browser is
\* launched and nothing is cached under the missing url
C12_MissingUrlFailsFast ==
    \A p \in Procs :
        (toolCall(p) /\ url[p] = UNDEFINED) =>
            /\ response[p].status = "sent"
            /\ response[p].isError
            /\ invoked[p] = <<>>
            /\ requests[p] = <<>>
            /\ browsers = <<>>
            /\ ~cache[UNDEFINED].present

\* what the code does without url: the reader API is asked for "undefined",
\* and its answer is cached under the missing url and returned as a success
C12_UndefinedIsRetrieved ==
    \E p \in Procs :
        /\ toolCall(p) /\ url[p] = UNDEFINED
        /\ requests[p] = <<"jina">>
        /\ cache[UNDEFINED].present
        /\ response[p].status = "sent" /\ ~response[p].isError

\* the call of slot p has failed: readWebPage has thrown
failed(p) == pc[p] = "threw" /\ ret[p].status = "error"

\* C13: an answered read_web_page tool call carries isError exactly when
\* readWebPage threw, and the answer to a call that returned carries the
\* returned Markdown as its text
C13_ErrorFlagIffFailed ==
    \A p \in Procs :
        response[p].status = "sent" =>
            /\ response[p].isError <=> failed(p)
            /\ ~failed(p) =>
                /\ pc[p] = "returned" /\ ret[p].status = "value"
                /\ response[p].text = ret[p].text

\* C13's case: a tool call answered with the error flag after the whole chain
\* came back absent, an earlier tool call having been answered with content
C13_Witness ==
    \E p \in Procs :
        /\ response[p].status = "sent" /\ response[p].isError
        /\ failed(p) /\ Len(returned[p]) >= 3
        /\ \E u \in Keys : cache[u].present

\* C14: a step changes the cache only at the URL string of the call that
\* returns in it, to the entry that call set; the entry of every other string,
\* be it the same address with a slash more, stays as it is, and a call served
\* from the cache is served the content stored under its own URL string
C14_OnlyOwnKeyTouched ==
    [][ /\ \A u \in Keys :
            cache'[u] # cache[u] =>
                \E p \in Procs :
                    /\ url[p] = u /\ inFlight(p) /\ pc'[p] = "returned"
                    /\ cache'[u] = Entry(lastReturned(p)'.text, now)
        /\ \A p \in Procs :
            (started' # started /\ pc'[p] = "returned" /\ invoked'[p] = <<>>) =>
                /\ cache[url'[p]].present
                /\ ret'[p].text = output(cache[url'[p]].content, objective'[p])
      ]_vars

\* C14's case: a call for U_PAGE_SLASH went through the chain and wrote its
\* own entry while U_PAGE was cached with another content
C14_Witness ==
    /\ cache[U_PAGE].present /\ cache[U_PAGE_SLASH].present
    /\ cache[U_PAGE].content # cache[U_PAGE_SLASH].content
    /\ \E p \in Procs : url[p] = U_PAGE_SLASH /\ pc[p] = "returned" /\ ~forceRefetch[p]
                        /\ invoked[p] # <<>>

\* the call of slot p missed the cache, ran the chain and set an entry
missedAndWrote(p) ==
    /\ pc[p] = "returned" /\ invoked[p] # <<>> /\ ~forceRefetch[p]
    /\ wrote[p].present

\* C15: calls for one URL in flight together are not merged, and the entry
\* under a URL is, whole, the entry that the call which set it last has set:
\* that call's content with that call's timestamp
C15_LastWriterWinsWhole ==
    \A u \in Keys :
        /\ writer[u] = 0 => ~cache[u].present
        /\ (writer[u] # 0 /\ url[writer[u]] = u /\ wrote[writer[u]].present) =>
                cache[u] = wrote[writer[u]]
        /\ \A p \in Procs, q \in Procs :
            (p # q /\ url[p] = u /\ url[q] = u /\ missedAndWrote(p) /\ missedAndWrote(q)) =>
                cache[u] \in {wrote[p], wrote[q]}

\* C15's case: two calls for U_PAGE both missed, both ran the chain while the
\* other was in flight and both set the entry, with different contents at
\* different times; the entry is that of the second to write
C15_Witness ==
    /\ url[1] = U_PAGE /\ url[2] = U_PAGE
    /\ missedAndWrote(1) /\ missedAndWrote(2)
    /\ started = 2
    /\ ~sawEntry[1].entry.present /\ ~sawEntry[2].entry.present
    /\ wrote[1].content # wrote[2].content
    /\ wrote[1].timestamp < wrote[2].timestamp
    /\ writer[U_PAGE] = 2
    /\ cache[U_PAGE] = wrote[2]

\* every browser launched so far is still connected
allConnected == \A h \in 1..Len(browsers) : browsers[h]

\* C16: getBrowser begins a launch only when browserInstance is null or not
\* connected, and otherwise returns browserInstance; as long as calls do not
\* overlap and no browser has lost its connection, one browser has been
\* launched at most and every call has been given that one
C16_GetBrowserReusesConnected ==
    /\ [](allConnected =>
            /\ Len(browsers) <= 1
            /\ \A p \in Procs : browser[p] # 0 => browser[p] = 1 /\ browserInstance = 1)
    /\ [][ \A p \in Procs :
            (pc[p] = "tryJina" /\ pc'[p] \in {"launch", "tryPlaywright"}) =>
                IF browserInstance # 0 /\ browsers[browserInstance]
                THEN pc'[p] = "tryPlaywright" /\ browser'[p] = browserInstance
                ELSE pc'[p] = "launch"
         ]_vars

\* C16's case: a second call reaches the browser strategy after a first one
\* had the browser launched and render a page, and is given the same browser
\* without a launch
C16_Witness ==
    \E p \in Procs :
        /\ started >= 2 /\ pc[p] = "tryPlaywright"
        /\ sawEntry[p].entry.present /\ sawEntry[p].entry.content = playwrightResult[[kind |-> "ok", body |-> STUB]].text
        /\ Len(browsers) = 1 /\ allConnected
        /\ browser[p] = 1 /\ browserInstance = 1

\* C17: nothing keeps a second call from launching while a first launch is
\* awaited: every call that found no connected browser launches one of its
\* own, each launch that completes adds a browser and overwrites
\* browserInstance with it, and the browsers launched before stay open with no
\* reference left to them
C17_ColdStartLaunchesPerCall ==
    /\ [](browserInstance = Len(browsers) /\ allConnected)
    /\ [][ \A p \in Procs :
            (pc[p] = "launch" /\ pc'[p] = "tryPlaywright") =>
                /\ browsers' = Append(browsers, TRUE)
                /\ browserInstance' = Len(browsers')
                /\ browser'[p] = browserInstance'
         ]_vars

\* C17's case: two calls passed the check before either launch completed, two
\* browsers were launched from the one cold start, and browserInstance is the
\* second while the first call still drives the first
C17_Witness ==
    /\ started = 2 /\ Len(browsers) = 2
    /\ pc[1] = "tryPlaywright" /\ pc[2] = "tryPlaywright"
    /\ browser[1] = 1 /\ browser[2] = 2
    /\ browserInstance = 2

\* the step is the start of a call in slot p
starts(p) == started' # started /\ sawEntry'[p].at = now /\ pc'[p] \in {"returned", "tryFetch"}

\* C18: the step in which readWebPage throws leaves the cache as it is, and
\* after a failed call the entry of its URL is the one found at the call's
\* start, none if there was none; a call without forceRefetch that follows the
\* failed call within the entry's 24 hours is served that entry's content
C18_FailureLeavesCache ==
    /\ [](\A p \in Sequential : failed(p) => cache[url[p]] = sawEntry[p].entry)
    /\ [][ \A p \in Sequential :
            /\ (inFlight(p) /\ pc'[p] = "threw") => cache' = cache
            /\ (failed(p) /\ starts(p) /\ url'[p] = url[p] /\ ~forceRefetch'[p]
                    /\ cache[url[p]].present
                    /\ now - cache[url[p]].timestamp < DAY_MS) =>
                /\ pc'[p] = "returned" /\ invoked'[p] = <<>>
                /\ ret'[p].text = output(sawEntry[p].entry.content, objective'[p])
                /\ cache' = cache
         ]_vars

\* C18's case: a forceRefetch call passed over an entry younger than 24 hours,
\* every strategy came back absent and the call threw; the entry is as it was
C18_Witness ==
    \E p \in Sequential :
        /\ failed(p) /\ forceRefetch[p] /\ sawFresh(p)
        /\ Len(returned[p]) = 3
        /\ cache[url[p]] = sawEntry[p].entry
        /\ now > sawEntry[p].at

\* what the strategies hand to readWebPage for U_PAGE, before any filtering
Retrieved ==
    {tryFetch(r).text : r \in {x \in Responses : tryFetch(x).present}}
        \cup {tryJina(r).text : r \in {x \in Responses : tryJina(x).present}}
        \cup {tryPlaywright(r).text : r \in {x \in BrowserOutcomes : tryPlaywright(x).present}}

\* C19: the entry a call sets holds the strategy's result as the strategy
\* returned it, whatever objective the call was given, so calls that differ in
\* the objective alone leave the same cache; and a cache hit filters the
\* stored, full content by the objective of the call that hits
C19_CacheHoldsUnfiltered ==
    /\ \A u \in Keys : cache[u].present => cache[u].content \in Retrieved
    /\ \A p \in Sequential :
        /\ (pc[p] = "returned" /\ invoked[p] # <<>>) =>
                /\ cache[url[p]] = Entry(lastReturned(p).text, wrote[p].timestamp)
                /\ ret[p].text = output(lastReturned(p).text, objective[p])
        /\ (pc[p] = "returned" /\ invoked[p] = <<>>) =>
                /\ cache[url[p]].content \in Retrieved
                /\ ret[p].text = output(cache[url[p]].content, objective[p])

\* C19's case: a call with an objective was returned the filtered lines and
\* the entry it set holds all of the page
C19_Witness ==
    \E p \in Sequential :
        /\ pc[p] = "returned" /\ invoked[p] # <<>> /\ objective[p].present
        /\ ret[p].text # lastReturned(p).text
        /\ cache[url[p]].content = lastReturned(p).text
        /\ cache[url[p]].content # ret[p].text

\* C20: the step that serves a call from the cache leaves the cache as it is,
\* content and timestamp; a timestamp changes only when a call that went
\* through the chain returns, to the time of that return, so a call without
\* forceRefetch hits an entry exactly until 24 hours after the retrieval that
\* wrote it, however often the entry was read
C20_HitLeavesCache ==
    [][ /\ \A p \in Sequential :
            (starts(p) /\ pc'[p] = "returned") => cache' = cache
        /\ \A u \in Keys :
            cache'[u] # cache[u] =>
                /\ cache'[u].timestamp = now
                /\ \E p \in Sequential : url[p] = u /\ inFlight(p) /\ pc'[p] = "returned"
        /\ \A p \in Sequential :
            (starts(p) /\ ~forceRefetch'[p] /\ cache[url'[p]].present) =>
                (pc'[p] = "returned" <=> now - cache[url'[p]].timestamp < DAY_MS)
      ]_vars

\* C20's case: an entry was read in the last millisecond of its 24 hours and
\* is as old after the read as it was before
C20_Witness ==
    \E p \in Sequential :
        /\ pc[p] = "returned" /\ invoked[p] = <<>>
        /\ cache[url[p]] = sawEntry[p].entry
        /\ sawEntry[p].at - cache[url[p]].timestamp = DAY_MS - 1
        /\ now = sawEntry[p].at

\* the call of slot p is inside tryPlaywright's inner try or its finally
\* clause: it has opened a page and page.close has not settled
holdsPage(p) == pc[p] \in {"render", "closePage"}

\* the calls that hold a page of browser h
holders(h) == {p \in Procs : holdsPage(p) /\ browser[p] = h}

\* C21: the pages open in a browser are those of the calls still between
\* newPage and the end of page.close, one each, so a call that has left
\* tryPlaywright, with content or with null, has left no page open and with
\* every call completed no page is open; no step of a call disconnects a
\* browser or gives up browserInstance, which stays the browser to reuse
C21_PagesClosedBrowserKept ==
    /\ [](/\ \A h \in 1..Len(browsers) :
                pages[h] = IF browsers[h] THEN Cardinality(holders(h)) ELSE 0
          /\ (\A p \in Procs : ~holdsPage(p)) => \A h \in 1..Len(pages) : pages[h] = 0
          /\ (browsers # <<>> /\ allConnected) =>
                browserInstance # 0 /\ browsers[browserInstance])
    /\ [][ \A p \in Procs :
            pc'[p] # pc[p] =>
                /\ \A h \in 1..Len(browsers) : browsers'[h] = browsers[h]
                /\ browserInstance' = browserInstance \/ pc[p] = "launch"
         ]_vars

\* C21's case: two calls went through tryPlaywright on the one browser, one
\* returned the page's Markdown and the other got null; no page is open and
\* the browser is connected and still browserInstance
C21_Witness ==
    /\ pc[1] = "returned" /\ pc[2] = "threw"
    /\ Len(returned[1]) = 3 /\ rendered[1].present /\ lastReturned(1) = rendered[1]
    /\ Len(returned[2]) = 3 /\ lastReturned(2) = Null
    /\ browser[1] = 1 /\ browser[2] = 1
    /\ Len(browsers) = 1 /\ browsers[1] /\ browserInstance = 1
    /\ pages[1] = 0

====
